---- MODULE Spec2Model ----
(***************************************************************************)
(* bevy_invaders (src/src/main.rs): the frame loop of the Bevy app, its     *)
(* AppState machine, the keyboard and button inputs, and the gameplay       *)
(* systems registered for OnUpdate(AppState::GameRunning).                  *)
(*                                                                         *)
(* Positions are exact rationals kept as integers in units of TIME_STEP     *)
(* pixels (1/60 px): a speed of v px/s moves an entity v units per frame.   *)
(* The rounding of f32 arithmetic is not modelled.                          *)
(***************************************************************************)
EXTENDS Integers, Sequences, FiniteSets, TLC

\* ---------------------------------------------------------------- constants
WIDTH == 1280
HEIGHT == 720
\* TIME_STEP = 1.0 / 60.0 : the number of position units in one pixel.
TICK_RATE == 60
BULLET_SPEED == 400
PLAYER_SPEED == 500

\* A length in pixels, in position units.
Px(n) == n * TICK_RATE

\* ------------------------------------------------------------------- bounds
\* Total number of shots (ShootingEvents sent) the keyboard may still trigger.
MaxBullets == 1
\* Frames keep coming while every bullet is fewer than MaxFlight steps above
\* the player's row.
MaxFlight == 1
\* KeyboardInput events delivered within one frame.
MaxKeyEvents == 1
\* Cap of the counter of frames of one uninterrupted hold of the shoot key.
MaxHold == 2
\* As MaxFlight, for the specification in which only the shoot key is used.
FlightTicks == 103
\* Bullets of the initial world of the culling specification.
CullBullets == 2

\* Shots fired, and frames a bullet may have flown, in a game of several shots.
ShotBullets == 3

ShotFlight == 6

\* -------------------------------------------------------------------- state
VARIABLES
    appState,        \* State<AppState>
    nextState,       \* NextState<AppState>: "None" or the state asked for
    started,         \* the startup schedule and the first OnEnter have run
    stage,           \* position in the frame: "frame" (before First) or "update"
    keyboard_input,  \* Input<KeyCode>: [pressed, just_pressed]
    interaction,     \* the start button's Interaction component
    changed,         \* Changed<Interaction> as the menu system will see it
    buttonColour,    \* the start button's BackgroundColor (while it exists)
    menuEntities,    \* live entities of the menu: set of [id, kind]
    players,         \* entities with Player: set of [id, x, y, collider]
    bullets,         \* entities with Bullet: set of [id, x, y, vx, vy, collider]
    enemies,         \* entities with Enemy: set of [id, x, y]
    texts,           \* ids of the entities with a Text component
    nextId,          \* next entity id to allocate
    score,           \* Scoreboard.score
    shootingEvents,  \* Events<ShootingEvent>: [older, newer, count]
    soundCursor,     \* play_shooting_sound's EventReader: last_event_count
    collisionEvents, \* Events<CollisionEvent>: number of events ever sent
    ran,             \* systems the last Update stage has run
    order,           \* the order in which this frame's Update has run them
    panicked,        \* a system has panicked (Query::single on != 1 entity)
    hold             \* observer of the current hold of the shoot key

vars == <<appState, nextState, started, stage, keyboard_input, interaction,
          changed, buttonColour, menuEntities, players, bullets, texts, nextId,
          score, shootingEvents, soundCursor, collisionEvents, ran, panicked,
          hold, enemies, order>>

AppStates == {"Menu", "GameRunning", "GameOver"}
KeyCodes == {"Left", "Right", "Space"}
\* Keys the program asks just_pressed of.
EdgeKeys == {"Space"}
Interactions == {"None", "Hovered", "Clicked"}
GameSystems == {"collision_check", "apply_velocity", "remove_offscreen_entities",
                "move_player", "player_shoot", "play_shooting_sound",
                "update_scoreboard"}

\* ---------------------------------------------------------- Input<KeyCode>
KeyEvents(keys) == [key : keys, state : {"Pressed", "Released"}]

KeyEventSeqs(keys) ==
    UNION {[1..n -> KeyEvents(keys)] : n \in 0..MaxKeyEvents}

\* Input::press: just_pressed only when the key was not already pressed.
press(inp, k) ==
    [pressed |-> inp.pressed \cup {k},
     just_pressed |-> IF k \in inp.pressed THEN inp.just_pressed
                      ELSE inp.just_pressed \cup ({k} \cap EdgeKeys)]

\* Input::release.
release(inp, k) ==
    [pressed |-> inp.pressed \ {k}, just_pressed |-> inp.just_pressed]

RECURSIVE ApplyKeyEvents(_, _)
ApplyKeyEvents(inp, evs) ==
    IF evs = <<>> THEN inp
    ELSE ApplyKeyEvents(IF Head(evs).state = "Pressed"
                        THEN press(inp, Head(evs).key)
                        ELSE release(inp, Head(evs).key),
                        Tail(evs))

\* keyboard_input_system: Input::clear, then this frame's events in order.
keyboard_input_system(inp, evs) ==
    ApplyKeyEvents([pressed |-> inp.pressed, just_pressed |-> {}], evs)

\* The events of the frame that change whether the shoot key is held.
RECURSIVE ShootKeyEdges(_, _)
ShootKeyEdges(isDown, evs) ==
    IF evs = <<>> THEN 0
    ELSE LET e == Head(evs)
             flips == e.key = "Space" /\ (e.state = "Pressed") # isDown
         IN  (IF flips THEN 1 ELSE 0)
             + ShootKeyEdges(IF flips THEN ~isDown ELSE isDown, Tail(evs))

\* ------------------------------------------------------ Events<ShootingEvent>
\* Events::update (CoreSet::First): the older buffer is dropped.
EventsUpdate(ev) == [older |-> ev.newer, newer |-> 0, count |-> ev.count]

\* EventWriter::send_default.
send_default(ev) ==
    [older |-> ev.older, newer |-> ev.newer + 1, count |-> ev.count + 1]

\* ManualEventReader::len: the unread events still in the buffers.
ReaderLen(ev, cursor) ==
    LET unread == IF ev.count > cursor THEN ev.count - cursor ELSE 0
        held == ev.older + ev.newer
    IN  IF unread < held THEN unread ELSE held

\* ------------------------------------------------------------------ geometry
player_y == -(Px(HEIGHT) \div 2) + Px(50)
left_bound == -(Px(WIDTH) \div 2) + Px(32)
right_bound == (Px(WIDTH) \div 2) - Px(32)
bottom_edge == -(Px(HEIGHT) \div 2)
top_edge == Px(HEIGHT) \div 2

clamp(v, lo, hi) == IF v < lo THEN lo ELSE IF v > hi THEN hi ELSE v

\* ------------------------------------------------------------ setup systems
\* The part of the World that the setup and cleanup systems act on.
World == [players |-> players, texts |-> texts, menuEntities |-> menuEntities,
          nextId |-> nextId, interaction |-> interaction, changed |-> changed,
          buttonColour |-> buttonColour]

\* setup (startup system): spawns the camera.
setup(w) == [w EXCEPT !.nextId = w.nextId + 1]

\* menu_setup (OnEnter(Menu)): a Menu node, the start button and its label.
\* A spawned Interaction is None and counts as changed.
menu_setup(w) ==
    [w EXCEPT !.menuEntities = w.menuEntities \cup
                  {[id |-> w.nextId, kind |-> "Menu"],
                   [id |-> w.nextId + 1, kind |-> "Button"],
                   [id |-> w.nextId + 2, kind |-> "Text"]},
              !.texts = w.texts \cup {w.nextId + 2},
              !.nextId = w.nextId + 3,
              !.interaction = "None",
              !.changed = TRUE,
              !.buttonColour = "BUTTON_BG_COLOUR"]

\* Faulty variant of menu_cleanup: despawn() in place of despawn_recursive(),
\* which leaves the button and its text in the world.
menu_cleanup_flat(w) ==
    [w EXCEPT !.menuEntities = {e \in w.menuEntities : e.kind # "Menu"}]

\* menu_cleanup (OnExit(Menu)): despawn_recursive of every Menu entity.
menu_cleanup(w) ==
    IF \E e \in w.menuEntities : e.kind = "Menu"
    THEN [w EXCEPT !.menuEntities = {},
                   !.texts = w.texts \ {e.id : e \in w.menuEntities},
                   !.interaction = "None",
                   !.changed = FALSE,
                   !.buttonColour = "BUTTON_BG_COLOUR"]
    ELSE w

\* Faulty variant of game_setup: the Player bundle is not spawned.
game_setup_without_player(w) ==
    [w EXCEPT !.texts = w.texts \cup {w.nextId + 1},
              !.nextId = w.nextId + 2]

\* game_setup (OnEnter(GameRunning)): the player and the scoreboard text.
game_setup(w) ==
    [w EXCEPT !.players = w.players \cup
                  {[id |-> w.nextId, x |-> 0, y |-> player_y,
                    collider |-> TRUE]},
              !.texts = w.texts \cup {w.nextId + 1},
              !.nextId = w.nextId + 2]

\* The schedules main() registers for leaving and entering a state.
OnExit(s, w) == IF s = "Menu" THEN menu_cleanup(w) ELSE w

OnEnter(s, w) ==
    IF s = "Menu" THEN menu_setup(w)
    ELSE IF s = "GameRunning" THEN game_setup(w)
    ELSE w

\* Faulty variant of OnUpdate: update_scoreboard added outside the state's set, as
\* in the commented-out .add_system(update_scoreboard).
OnUpdate_ungated(s) ==
    IF s = "Menu" THEN {"menu", "update_scoreboard"}
    ELSE IF s = "GameRunning" THEN GameSystems
    ELSE {"update_scoreboard"}

\* The systems main() registers in OnUpdate(s).
OnUpdate(s) ==
    IF s = "Menu" THEN {"menu"}
    ELSE IF s = "GameRunning" THEN GameSystems
    ELSE {}

\* ui_focus_system (PreUpdate): the button takes the interaction the mouse
\* gives it; the component is written only when its value differs.
ui_focus_system(w, i) ==
    IF \E e \in w.menuEntities : e.kind = "Button"
    THEN [w EXCEPT !.interaction = i,
                   !.changed = w.changed \/ i # w.interaction]
    ELSE w

\* ---------------------------------------------------------------- systems
\* Faulty variant of menu: the click asks for GameOver.
menu_game_over(next, w) ==
    IF w.changed /\ w.interaction = "Clicked" THEN "GameOver" ELSE next

\* Faulty variant of menu: a hover starts the game as a click does.
menu_on_hover(next, w) ==
    IF w.changed /\ w.interaction \in {"Clicked", "Hovered"}
    THEN "GameRunning" ELSE next

\* menu: the state the start button asks for on this frame's interaction.
menu(next, w) ==
    IF w.changed /\ w.interaction = "Clicked" THEN "GameRunning" ELSE next

\* menu: the button colour after this frame's interaction.
menuColour(w) ==
    IF ~w.changed THEN w.buttonColour
    ELSE IF w.interaction = "Hovered" THEN "BUTTON_GB_COLOUR_HOVERED"
    ELSE IF w.interaction = "None" THEN "BUTTON_BG_COLOUR"
    ELSE w.buttonColour

\* Query::single / single_mut: exactly one matching entity, or a panic.
single(S) == Cardinality(S) = 1

direction(inp) ==
    (IF "Left" \in inp.pressed THEN -1 ELSE 0)
    + (IF "Right" \in inp.pressed THEN 1 ELSE 0)

\* Faulty variant of move_player: new_position is stored without the clamp.
move_player_unclamped(p, inp) ==
    [p EXCEPT !.x = p.x + direction(inp) * PLAYER_SPEED]

\* move_player, on the one Player entity.
move_player(p, inp) ==
    [p EXCEPT !.x = clamp(p.x + direction(inp) * PLAYER_SPEED,
                          left_bound, right_bound)]

\* Faulty variant of shoots: pressed instead of just_pressed.
shoots_while_held(inp) == "Space" \in inp.pressed

\* player_shoot: the condition under which it shoots.
shoots(inp) == "Space" \in inp.just_pressed

\* player_shoot: the bullet it spawns for player p: a mesh bundle (with its
\* Transform), Bullet and Velocity, no Collider.
spawn_bullet(p, id) ==
    [id |-> id, x |-> p.x, y |-> p.y, vx |-> 0, vy |-> BULLET_SPEED,
     collider |-> FALSE]

\* Faulty variant of shoot_score: a shot counts twice.
shoot_score_twice(s, inp) == IF shoots(inp) THEN s + 2 ELSE s

\* Faulty variant of shoot_score: the score is decremented.
shoot_score_decrement(s, inp) == IF shoots(inp) THEN s - 1 ELSE s

\* player_shoot: the score after it has run.
shoot_score(s, inp) == IF shoots(inp) THEN s + 1 ELSE s

\* apply_velocity, on every entity with a Transform and a Velocity.
apply_velocity(bs) ==
    {[b EXCEPT !.y = b.y + b.vy, !.x = b.x + b.vx] : b \in bs}

\* collision_check: empty body, it sends no CollisionEvent.
collision_check(n) == n

\* Faulty variant of remove_offscreen_entities: what has left through the top
\* edge is removed.
remove_offscreen_top(bs) == {b.id : b \in {c \in bs : c.y > top_edge}}

\* Faulty variant of remove_offscreen_entities: the comparison is reversed.
remove_offscreen_above(bs) == {b.id : b \in {c \in bs : c.y > bottom_edge}}

\* remove_offscreen_entities: the entities it queues a despawn for.
remove_offscreen_entities(bs) == {b.id : b \in {c \in bs : c.y < bottom_edge}}

\* play_shooting_sound: whether it plays, and its reader's cursor afterwards.
plays_sound(ev, cursor) == ReaderLen(ev, cursor) > 0

\* Faulty variant of play_shooting_sound: shooting_events.clear() is left out.
play_shooting_sound_without_clear(ev, cursor) == cursor

play_shooting_sound(ev, cursor) ==
    IF plays_sound(ev, cursor) THEN ev.count ELSE cursor

\* Faulty variant of Scoreboard: the resource is inserted with a stale score.
Scoreboard_stale == [score |-> 7]

\* insert_resource(Scoreboard { score: 0 }).
Scoreboard == [score |-> 0]

\* ---------------------------------------------------------------- schedule
\* Faulty variant of SystemOrder: move_player without .before(collision_check).
SystemOrder_unordered_move ==
    {<<"apply_velocity", "collision_check">>,
     <<"apply_velocity", "remove_offscreen_entities">>,
     <<"apply_velocity", "move_player">>,
     <<"player_shoot", "play_shooting_sound">>}

\* The ordering constraints main() puts on the systems of
\* OnUpdate(AppState::GameRunning): <<a, b>> is a.before(b) or b.after(a).
SystemOrder ==
    {<<"apply_velocity", "collision_check">>,
     <<"apply_velocity", "remove_offscreen_entities">>,
     <<"move_player", "collision_check">>,
     <<"apply_velocity", "move_player">>,
     <<"player_shoot", "play_shooting_sound">>}

\* The orders in which the executor may run the systems of sys: every
\* sequence of them that respects SystemOrder.
RECURSIVE Schedules(_)
Schedules(sys) ==
    IF sys = {} THEN {<<>>}
    ELSE UNION {{<<s>> \o t : t \in Schedules(sys \ {s})} :
                   s \in {r \in sys :
                             \A q \in sys : <<q, r>> \notin SystemOrder}}

GameSchedules == Schedules(GameSystems)

\* One schedule for each order of player_shoot and move_player, the one pair
\* of unordered systems of which one reads what the other writes (the
\* player's Transform) among the data kept here.
ShootFirst ==
    <<"player_shoot", "play_shooting_sound", "apply_velocity", "move_player",
      "collision_check", "remove_offscreen_entities", "update_scoreboard">>

ShootLast ==
    <<"apply_velocity", "move_player", "collision_check",
      "remove_offscreen_entities", "player_shoot", "play_shooting_sound",
      "update_scoreboard">>

ShootSchedules == {ShootFirst, ShootLast} \cap GameSchedules

\* Place of system s in a schedule, and whether a runs before b in it.
Place(o, s) == CHOOSE i \in DOMAIN o : o[i] = s

RunsBefore(o, a, b) == Place(o, a) < Place(o, b)

\* player_shoot: the Transform it reads under schedule o, for player p.
shooter(o, p, inp) ==
    IF "move_player" \notin {o[i] : i \in DOMAIN o}
       \/ RunsBefore(o, "player_shoot", "move_player")
    THEN p ELSE move_player(p, inp)

\* ------------------------------------------------------------------- frames
\* The state after main() has built the App: the Scoreboard resource and the
\* default AppState are inserted, nothing has been spawned yet.
Init ==
    /\ appState = "Menu"
    /\ nextState = "None"
    /\ started = FALSE
    /\ stage = "frame"
    /\ keyboard_input = [pressed |-> {}, just_pressed |-> {}]
    /\ interaction = "None"
    /\ changed = FALSE
    /\ buttonColour = "BUTTON_BG_COLOUR"
    /\ menuEntities = {}
    /\ players = {}
    /\ bullets = {}
    /\ texts = {}
    /\ nextId = 0
    /\ score = Scoreboard.score
    /\ shootingEvents = [older |-> 0, newer |-> 0, count |-> 0]
    /\ soundCursor = 0
    /\ collisionEvents = 0
    /\ ran = {}
    /\ panicked = FALSE
    /\ hold = [tracked |-> FALSE, ticks |-> 0, shots |-> 0, events |-> 0]
    /\ enemies = {}
    /\ order = <<>>

\* apply_state_transition: the state, and the world after OnExit and OnEnter.
transition_state(cur, next) == IF next = "None" THEN cur ELSE next

apply_state_transition(cur, next, w) ==
    IF next = "None" THEN w ELSE OnEnter(next, OnExit(cur, w))

\* The observer of the hold of the shoot key: a hold is followed from the
\* frame of its rising edge when that frame runs the gameplay systems.
hold_input(h, wasDown, evs, isDown, state) ==
    IF ShootKeyEdges(wasDown, evs) = 0 THEN h
    ELSE [tracked |-> isDown /\ state = "GameRunning",
          ticks |-> 0, shots |-> 0, events |-> 0]

hold_update(h, shot, sent) ==
    IF ~h.tracked THEN h
    ELSE [tracked |-> TRUE,
          ticks |-> IF h.ticks < MaxHold THEN h.ticks + 1 ELSE h.ticks,
          shots |-> h.shots + shot,
          events |-> h.events + sent]

\* The stages of a frame before CoreSet::Update: First (Events::update),
\* PreUpdate (keyboard_input_system, ui_focus_system) and StateTransitions.
\* The first frame runs the startup schedule before them, and the OnEnter
\* schedule of the initial state in StateTransitions.
\* keys: the keys the player uses; flight: frames a bullet may have flown;
\* shots: presses of the shoot key the player makes.
FrameStart(keys, flight, shots) ==
    /\ stage = "frame"
    /\ ~panicked
    /\ \A b \in bullets : b.y < player_y + flight * BULLET_SPEED
    /\ \E evs \in KeyEventSeqs(keys), i \in Interactions :
        /\ shootingEvents.count >= shots =>
               \A n \in DOMAIN evs : evs[n] # [key |-> "Space", state |-> "Pressed"]
        /\ (\A e \in menuEntities : e.kind # "Button") => i = "None"
        /\ LET w0 == IF started THEN World ELSE setup(World)
               w1 == ui_focus_system(w0, i)
               w2 == IF started THEN w1 ELSE OnEnter(appState, w1)
               w3 == apply_state_transition(appState, nextState, w2)
               inp == keyboard_input_system(keyboard_input, evs)
               state == transition_state(appState, nextState)
           IN  /\ keyboard_input' = inp
               /\ shootingEvents' = EventsUpdate(shootingEvents)
               /\ appState' = state
               /\ nextState' = "None"
               /\ players' = w3.players
               /\ texts' = w3.texts
               /\ menuEntities' = w3.menuEntities
               /\ nextId' = w3.nextId
               /\ interaction' = w3.interaction
               /\ changed' = w3.changed
               /\ buttonColour' = w3.buttonColour
               /\ hold' = hold_input(hold, "Space" \in keyboard_input.pressed,
                                     evs, "Space" \in inp.pressed, state)
    /\ started' = TRUE
    /\ stage' = "update"
    /\ order' = <<>>
    /\ UNCHANGED <<bullets, enemies, score, soundCursor, collisionEvents, ran,
                   panicked>>

\* CoreSet::Update and its flush: the systems of OnUpdate(appState), in an
\* order main()'s constraints allow, then the queued spawns and despawns.
\* player_shoot is ordered against play_shooting_sound only: it reads the
\* player's Transform before or after move_player has written it.
\* scheds: the schedules of the gameplay systems that are followed.
Update(scheds) ==
    /\ stage = "update"
    /\ ~panicked
    /\ LET sys == OnUpdate(appState)
           needPlayer == {"move_player", "player_shoot"} \cap sys # {}
           needText == "update_scoreboard" \in sys
           fails == \/ needPlayer /\ ~single(players)
                    \/ needText /\ ~single(texts)
       IN  IF fails
           THEN /\ panicked' = TRUE
                /\ ran' = sys
                /\ order' = <<>>
                /\ UNCHANGED <<nextState, interaction, changed, buttonColour,
                               players, bullets, nextId, score, shootingEvents,
                               soundCursor, collisionEvents, hold>>
           ELSE \E o \in (IF sys = GameSystems THEN scheds ELSE Schedules(sys)) :
                LET p == CHOOSE q \in players : TRUE
                    moved == IF "move_player" \in sys
                             THEN {move_player(p, keyboard_input)} ELSE players
                    flown == IF "apply_velocity" \in sys
                             THEN apply_velocity(bullets) ELSE bullets
                    gone == IF "remove_offscreen_entities" \in sys
                            THEN remove_offscreen_entities(flown) ELSE {}
                    shot == "player_shoot" \in sys /\ shoots(keyboard_input)
                    from == shooter(o, p, keyboard_input)
                    sent == IF shot THEN send_default(shootingEvents)
                            ELSE shootingEvents
                IN  /\ players' = moved
                    /\ bullets' = {b \in flown : b.id \notin gone}
                           \cup (IF shot THEN {spawn_bullet(from, nextId)} ELSE {})
                    /\ nextId' = IF shot THEN nextId + 1 ELSE nextId
                    /\ score' = IF "player_shoot" \in sys
                                THEN shoot_score(score, keyboard_input) ELSE score
                    /\ shootingEvents' = sent
                    /\ soundCursor' = IF "play_shooting_sound" \in sys
                                      THEN play_shooting_sound(sent, soundCursor)
                                      ELSE soundCursor
                    /\ collisionEvents' = IF "collision_check" \in sys
                                          THEN collision_check(collisionEvents)
                                          ELSE collisionEvents
                    /\ nextState' = IF "menu" \in sys THEN menu(nextState, World)
                                    ELSE nextState
                    /\ buttonColour' = IF "menu" \in sys THEN menuColour(World)
                                       ELSE buttonColour
                    /\ changed' = IF "menu" \in sys THEN FALSE ELSE changed
                    /\ hold' = IF "player_shoot" \in sys
                               THEN hold_update(hold, IF shot THEN 1 ELSE 0,
                                                sent.count - shootingEvents.count)
                               ELSE hold
                    /\ ran' = sys
                    /\ order' = o
                    /\ UNCHANGED <<interaction, panicked>>
    /\ stage' = "frame"
    /\ UNCHANGED <<appState, started, keyboard_input, menuEntities, texts,
                   enemies>>

\* The game as played with every key and the mouse.
Frame == FrameStart(KeyCodes, MaxFlight, MaxBullets)

Tick == Update(ShootSchedules)

Next == Frame \/ Tick

Spec == Init /\ [][Next]_vars

\* The game as played with the shoot key only, for as long as a bullet needs
\* to cross the window.
FrameFlight == FrameStart(EdgeKeys, FlightTicks, MaxBullets)

NextFlight == FrameFlight \/ Tick

SpecFlight == Init /\ [][NextFlight]_vars

\* remove_offscreen_entities as a function of the world it queries: a running
\* game whose bullets are placed at heights on both sides of the bottom edge.
CullYs == {bottom_edge - 2 * BULLET_SPEED, bottom_edge - BULLET_SPEED - 1,
           bottom_edge - BULLET_SPEED, bottom_edge}

InitCull ==
    /\ appState = "GameRunning"
    /\ nextState = "None"
    /\ started = TRUE
    /\ stage = "frame"
    /\ keyboard_input = [pressed |-> {}, just_pressed |-> {}]
    /\ interaction = "None"
    /\ changed = FALSE
    /\ buttonColour = "BUTTON_BG_COLOUR"
    /\ menuEntities = {}
    /\ players = {[id |-> 4, x |-> 0, y |-> player_y, collider |-> TRUE]}
    /\ \E ys \in [0..(CullBullets - 1) -> CullYs] :
           bullets = {[id |-> 6 + k, x |-> 0, y |-> ys[k], vx |-> 0,
                       vy |-> BULLET_SPEED, collider |-> FALSE] :
                          k \in 0..(CullBullets - 1)}
    /\ texts = {5}
    /\ nextId = 6 + CullBullets
    /\ score = Scoreboard.score
    /\ shootingEvents = [older |-> 0, newer |-> 0, count |-> 0]
    /\ soundCursor = 0
    /\ collisionEvents = 0
    /\ ran = {}
    /\ panicked = FALSE
    /\ hold = [tracked |-> FALSE, ticks |-> 0, shots |-> 0, events |-> 0]
    /\ enemies = {}
    /\ order = <<>>

FrameCull == FrameStart(EdgeKeys, MaxFlight, MaxBullets)

NextCull == FrameCull \/ Tick

SpecCull == InitCull /\ [][NextCull]_vars

\* The game as played with the shoot key only, under every order of the
\* gameplay systems that main()'s constraints allow.
FrameSched == FrameStart(EdgeKeys, MaxFlight, MaxBullets)

TickSched == Update(GameSchedules)

NextSched == FrameSched \/ TickSched

SpecSched == Init /\ [][NextSched]_vars

\* The game as played with the shoot key only, pressed several times.
FrameShots == FrameStart(EdgeKeys, ShotFlight, ShotBullets)

NextShots == FrameShots \/ Tick

SpecShots == Init /\ [][NextShots]_vars

\* ------------------------------------------------------------------- claims
bulletIds == {b.id : b \in bullets}
playerIds == {p.id : p \in players}

\* C1. Boundary clamp: in every state the Player's x lies within
\* [left_bound, right_bound], however long Left or Right is held.
BoundaryClamp ==
    \A p \in players : left_bound <= p.x /\ p.x <= right_bound

\* The player pushed against the right bound: move_player has just run with
\* Right held and the clamp has cut the step short (right_bound is no
\* multiple of the step).
BoundaryClampWitness ==
    /\ stage = "frame"
    /\ "move_player" \in ran
    /\ keyboard_input.pressed = {"Right"}
    /\ \E p \in players : p.x = right_bound

\* C2. Shoot edge-triggering: over the frames of one uninterrupted hold of
\* the shoot key whose rising edge a running frame has seen, player_shoot
\* spawns exactly one bullet and sends exactly one ShootingEvent, both in the
\* first of these frames.
ShootEdgeTriggered ==
    (hold.tracked /\ hold.ticks >= 1) => (hold.shots = 1 /\ hold.events = 1)

\* The shoot key held over MaxHold running frames.
ShootEdgeWitness ==
    /\ hold.tracked
    /\ hold.ticks >= 2
    /\ "Space" \in keyboard_input.pressed
    /\ stage = "frame"

\* C3. Bullet culling: a bullet below the bottom edge when
\* remove_offscreen_entities runs is out of the world at the end of the
\* frame, a despawned entity never comes back, and the Player is never
\* removed.
BulletCulling ==
    /\ [](stage = "frame" /\ "remove_offscreen_entities" \in ran
            => \A b \in bullets : b.y >= bottom_edge)
    /\ [][/\ \A id \in 0..(nextId - 1) :
                 id \notin bulletIds => id \notin bulletIds'
          /\ playerIds \subseteq playerIds']_vars

\* A bullet that was below the bottom edge has been despawned, the bullet
\* exactly on the edge and the Player are still there.
BulletCullingWitness ==
    /\ stage = "frame"
    /\ "remove_offscreen_entities" \in ran
    /\ \E id \in 6..(nextId - 1) : id \notin bulletIds
    /\ \E b \in bullets : b.y = bottom_edge
    /\ Cardinality(players) = 1

\* C4. Bullet flight ends: a bullet rises by BULLET_SPEED * TIME_STEP in
\* every running frame, and once it has left the window through the top edge
\* it is removed from the world.
BulletFlightEnds ==
    /\ [](stage = "frame" => \A b \in bullets : b.y <= top_edge)
    /\ [][stage = "update" =>
              \A b \in bullets : \A c \in bullets' :
                  c.id = b.id => c.y = b.y + BULLET_SPEED]_vars

\* C5. State gating: no gameplay system runs in a frame whose AppState is
\* not GameRunning, and while the state is Menu the player, the bullets and
\* the score do not change.
StateGating ==
    /\ [](stage = "frame" /\ ran \cap GameSystems # {}
            => appState = "GameRunning")
    /\ [][appState' # "GameRunning" =>
              players' = players /\ bullets' = bullets /\ score' = score]_vars

\* A menu frame with the movement and shoot keys down: only menu has run.
StateGatingWitness ==
    /\ stage = "frame"
    /\ appState = "Menu"
    /\ ran = {"menu"}
    /\ "Space" \in keyboard_input.just_pressed
    /\ "Left" \in keyboard_input.pressed

\* C6. Score only for destroyed enemies: the Scoreboard changes in a frame
\* only when a CollisionEvent was sent in it; shooting leaves it unchanged.
ScoreOnlyForEnemies ==
    [][score' # score => collisionEvents' > collisionEvents]_vars

\* C7. Score reset on session start: right after every transition into
\* GameRunning the Scoreboard is 0.
ScoreZeroOnStart ==
    [][appState # "GameRunning" /\ appState' = "GameRunning"
           => score' = 0]_vars

\* The state between the OnEnter(GameRunning) schedule and the first running
\* Update.
ScoreZeroOnStartWitness ==
    /\ stage = "update"
    /\ appState = "GameRunning"
    /\ ran = {"menu"}
    /\ score = 0
    /\ "Space" \in keyboard_input.just_pressed

\* C8. Score monotonicity: the Scoreboard never decreases from one frame to
\* the next.
ScoreMonotonic == [][score' >= score]_vars

\* A running game in which the score has moved.
ScoreMonotonicWitness ==
    /\ stage = "frame"
    /\ appState = "GameRunning"
    /\ score >= 1

\* C9. Single player: exactly one Player entity while GameRunning, none
\* while Menu or GameOver.
SinglePlayer ==
    /\ appState = "GameRunning" => Cardinality(players) = 1
    /\ appState \in {"Menu", "GameOver"} => Cardinality(players) = 0

\* The first state of the running game, and one where it has run for a while.
SinglePlayerWitness ==
    /\ appState = "GameRunning"
    /\ Cardinality(players) = 1
    /\ \/ stage = "update" /\ ran = {"menu"}
       \/ stage = "frame" /\ bullets # {}

\* C10. Transition discipline: AppState is always one of its three values;
\* it changes only along Menu -> GameRunning, GameRunning -> GameOver and
\* GameOver -> Menu, and it leaves Menu only after a click on the start
\* button.
TransitionDiscipline ==
    /\ [](appState \in AppStates)
    /\ [][appState' # appState =>
              /\ <<appState, appState'>> \in
                     {<<"Menu", "GameRunning">>, <<"GameRunning", "GameOver">>,
                      <<"GameOver", "Menu">>}
              /\ appState = "Menu" => interaction = "Clicked"]_vars

\* The game has been started by a click and its systems have run.
TransitionDisciplineWitness ==
    /\ appState = "GameRunning"
    /\ nextState = "None"
    /\ menuEntities = {}
    /\ ran = GameSystems

\* C12. Event drain, as claimed: at the start of every frame the channels
\* hold no ShootingEvent and no CollisionEvent of an earlier frame; and a
\* frame plays the shooting sound exactly when a ShootingEvent is sent in it.
EventDrain ==
    /\ [](stage = "frame" =>
             (shootingEvents.older + shootingEvents.newer = 0
                 /\ collisionEvents = 0))
    /\ [][stage = "update" =>
              (soundCursor' # soundCursor <=>
                   shootingEvents'.count > shootingEvents.count)]_vars

\* C12. Event drain, amended: between frames no ShootingEvent is unread by
\* play_shooting_sound and no CollisionEvent was ever sent; a frame plays the
\* shooting sound exactly when a ShootingEvent is sent in it, never later;
\* Events::update keeps the events of the frame before in the channel and
\* drops them one frame later.
EventDrainRead ==
    /\ [](/\ ReaderLen(shootingEvents, soundCursor) = 0
          /\ collisionEvents = 0)
    /\ [][stage = "update" =>
              (soundCursor' # soundCursor <=>
                   shootingEvents'.count > shootingEvents.count)]_vars
    /\ [][stage = "frame" =>
              (shootingEvents'.older = shootingEvents.newer
                  /\ shootingEvents'.newer = 0)]_vars

\* A frame starts with the ShootingEvent of the frame before, already read,
\* still in the channel.
EventDrainReadWitness ==
    /\ stage = "frame"
    /\ shootingEvents.newer = 1
    /\ soundCursor = shootingEvents.count
    /\ ran = GameSystems

\* C14. Collision after movement: in every frame of a running game, under
\* every order of the systems that the schedule allows, collision_check has
\* run after both apply_velocity and move_player.
CollisionAfterMovement ==
    (ran = GameSystems /\ order # <<>>) =>
        /\ RunsBefore(order, "apply_velocity", "collision_check")
        /\ RunsBefore(order, "move_player", "collision_check")

\* A frame in which player_shoot ran first and collision_check ran right
\* after the two movement systems.
CollisionAfterMovementWitness ==
    /\ stage = "frame"
    /\ ran = GameSystems
    /\ Len(order) = 7
    /\ order[1] = "player_shoot"
    /\ order[2] = "apply_velocity"
    /\ order[3] = "move_player"
    /\ order[4] = "collision_check"

\* C15. Culling after collision: in every frame of a running game, under
\* every order of the systems that the schedule allows,
\* remove_offscreen_entities has run after collision_check.
CullAfterCollision ==
    (ran = GameSystems /\ order # <<>>) =>
        RunsBefore(order, "collision_check", "remove_offscreen_entities")

\* C16. No missing-entity abort: no frame panics in a single-entity lookup;
\* whenever the gameplay systems are about to run, the first frame after
\* Menu -> GameRunning included, there is exactly one Player for move_player
\* and player_shoot and exactly one Text for update_scoreboard.
NoMissingEntity ==
    /\ ~panicked
    /\ (stage = "update" /\ OnUpdate(appState) = GameSystems) =>
           (single(players) /\ single(texts))

\* A frame of GameRunning has run all gameplay systems, before any shot: the
\* world holds what setup, menu_setup, menu_cleanup and game_setup left.
NoMissingEntityWitness ==
    /\ stage = "frame"
    /\ ran = GameSystems
    /\ ~panicked
    /\ Len(order) = 7
    /\ shootingEvents.count = 0
    /\ nextId = 6

\* C17. Bullet spawn: in a frame of a running game with a rising edge of
\* Space, the new Bullet is placed at the Player's (x, y), moves with
\* velocity (0, +BULLET_SPEED) and carries a Collider; the place is the same
\* under every order of the systems that the schedule allows.
BulletSpawn ==
    [][(stage = "update" /\ OnUpdate(appState) = GameSystems
           /\ shoots(keyboard_input)) =>
          LET p == CHOOSE q \in players : TRUE
          IN  /\ \E b \in bullets' :
                     /\ b.id = nextId
                     /\ b.x = p.x /\ b.y = p.y
                     /\ b.vx = 0 /\ b.vy = BULLET_SPEED
                     /\ b.collider
              /\ \A o \in GameSchedules :
                     shooter(o, p, keyboard_input) =
                         shooter(ShootFirst, p, keyboard_input)]_vars

\* C18. Score counts shots: in every state, and so in every running state,
\* the Scoreboard equals the number of ShootingEvents sent since the program
\* started, and every step adds to it the number of bullets the step spawns,
\* so that it equals the number of bullets spawned; a frame of a running game
\* with a rising edge of Space raises the score by exactly 1, and no other
\* frame changes it.
ScoreCountsShots ==
    /\ [](score = shootingEvents.count)
    /\ [](~started => (score = 0 /\ bullets = {}))
    /\ [][score' - score = Cardinality(bulletIds' \ bulletIds)]_vars
    /\ [][score' = IF stage = "update" /\ OnUpdate(appState) = GameSystems
                         /\ shoots(keyboard_input)
                     THEN score + 1 ELSE score]_vars

\* Several bullets have been shot.
ScoreCountsShotsWitness ==
    /\ stage = "frame"
    /\ score = ShotBullets
    /\ Cardinality(bullets) = ShotBullets

\* C19. Bullets are never removed: every bullet is spawned at
\* y = -(HEIGHT / 2) + 50, above the bottom edge, and only rises, so the
\* test of remove_offscreen_entities is never true of it; a bullet in the
\* world stays in the world, and the number of live bullets never decreases.
BulletsNeverRemoved ==
    /\ [](\A b \in bullets :
             /\ b.y >= player_y
             /\ b.vx = 0 /\ b.vy > 0
             /\ remove_offscreen_entities({b}) = {})
    /\ [][/\ \A b \in bullets :
                 \E c \in bullets' : c.id = b.id /\ c.y >= b.y
          /\ \A c \in bullets' : c.id \notin bulletIds => c.y = player_y
          /\ Cardinality(bullets') >= Cardinality(bullets)]_vars

\* A bullet that has left the window through the top edge is still in the
\* world.
BulletsNeverRemovedWitness ==
    /\ stage = "frame"
    /\ \E b \in bullets : b.y > top_edge + BULLET_SPEED

\* C20. GameRunning is absorbing: GameOver is never the state nor asked for;
\* once the state is GameRunning it stays GameRunning, so Menu is never
\* entered again; the only change of state is Menu -> GameRunning, and in
\* GameRunning no further transition is pending, so that it (and game_setup)
\* happens at most once.
RunningAbsorbing ==
    /\ [](/\ appState # "GameOver"
          /\ nextState # "GameOver"
          /\ appState = "GameRunning" => nextState = "None")
    /\ [][/\ appState = "GameRunning" => appState' = "GameRunning"
          /\ appState' # appState =>
                 (appState = "Menu" /\ appState' = "GameRunning")
          /\ appState = "GameRunning" =>
                 (playerIds' = playerIds /\ texts' = texts)]_vars

\* A running frame that follows a running frame.
RunningAbsorbingWitness ==
    /\ stage = "update"
    /\ appState = "GameRunning"
    /\ ran = GameSystems

====
